---- MODULE Spec2Model ----
(***************************************************************************)
(* Session and query lifecycle of the vehicle-manual QA chat client        *)
(* (App.js: the App component, its state hooks and its event handlers).    *)
(*                                                                         *)
(* A JavaScript string is modelled as a sequence of tokens: the token " "  *)
(* is one whitespace character, any other token is a run of non-blank      *)
(* text.  Template literals are sequence concatenation.  The value         *)
(* `undefined` is the one-token sequence Undefined.  Message timestamps    *)
(* (new Date()) are read by the renderer only and are left out.            *)
(***************************************************************************)
EXTENDS Integers, Sequences, FiniteSets, TLC

VARIABLES
    question,             \* useState("")  : the draft in the textarea
    selectedVehicle,      \* useState("")
    availableVehicles,    \* useState([...6 defaults])
    allVehicles,          \* useState([...6 defaults])
    vehicleSelectionStep, \* useState(true): TRUE = selection screen
    messages,             \* useState([])
    loading,              \* useState(false)
    loadingStep,          \* useState("")
    vpc,                  \* position of the fetchVehicles() call
    asks,                 \* the ask() invocations that passed line 67, in order
    origin,               \* history: for each message, the ask that appended it (0: selectVehicle)
    ev                    \* history: the handler or continuation that ran last

vars == <<question, selectedVehicle, availableVehicles, allVehicles,
          vehicleSelectionStep, messages, loading, loadingStep, vpc, asks,
          origin, ev>>

catalogVars == <<allVehicles, availableVehicles>>
sessionVars == <<vehicleSelectionStep, selectedVehicle, messages, origin, asks>>
phaseVars   == <<loading, loadingStep>>

----------------------------------------------------------------------------
(* Bounds of the model *)

MaxAsks == 2   \* ask() invocations accepted in one run
MaxCards == 2  \* the user clicks among the first MaxCards vehicle cards
MaxQuick == 1  \* the user clicks among the first MaxQuick quick-action buttons

----------------------------------------------------------------------------
(* Strings *)

Undefined == <<"undefined">>
Empty == <<>>

\* What the user types into the textarea: nothing, blanks, a padded word.
TypedTexts == {<<>>, <<" ", " ">>, <<" ", "a", " ">>}

IsSpace(c) == c = " "

RECURSIVE TrimStart(_)
TrimStart(s) ==
    IF s # <<>> /\ IsSpace(Head(s)) THEN TrimStart(Tail(s)) ELSE s

RECURSIVE TrimEnd(_)
TrimEnd(s) ==
    IF s # <<>> /\ IsSpace(s[Len(s)])
    THEN TrimEnd(SubSeq(s, 1, Len(s) - 1))
    ELSE s

\* Faulty variant of trim: white space is kept.
trim_identity(s) == s

\* String.prototype.trim
trim(s) == TrimEnd(TrimStart(s))

\* Array.prototype.includes
includes(list, x) == \E k \in 1..Len(list) : list[k] = x

DefaultVehicles ==
    <<"SONATA", "SANTAFE", "TUCSON", "AVANTE", "GRANDEUR", "PALISADE">>

\* The four quick-action buttons' questions.
QuickQuestions ==
    << <<"engine-oil", " ", "change">>,
       <<"tire-pressure", " ", "check">>,
       <<"battery", " ", "check">>,
       <<"service", " ", "interval">> >>

StepSearching  == <<"searching the manual...">>
StepGenerating == <<"generating the answer...">>

----------------------------------------------------------------------------
(* What the network can deliver *)

\* res.json() of /vehicles: invalid JSON, the JSON value null, or an object.
CatalogBodies ==
    { [kind |-> "invalid", vehicles |-> <<>>, available_vehicles |-> <<>>],
      [kind |-> "null",    vehicles |-> <<>>, available_vehicles |-> <<>>],
      [kind |-> "object",  vehicles |-> <<"SONATA", "TUCSON">>,
                           available_vehicles |-> <<"SONATA">>],
      [kind |-> "object",  vehicles |-> <<"SONATA">>,
                           available_vehicles |-> <<"SONATA", "TUCSON">>] }

Statuses == {200, 500}

\* Response.ok
ok(status) == status \in 200..299

Answer == <<"change", " ", "the", " ", "oil">>

\* res.json() of /ask: invalid JSON, the JSON value null, {answer} (no
\* sources) or {sources} (no answer).
AskBodies ==
    { [kind |-> "invalid", answer |-> Undefined, sources |-> Undefined],
      [kind |-> "null",    answer |-> Undefined, sources |-> Undefined] }
    \cup { [kind |-> "object", answer |-> Answer, sources |-> Undefined],
           [kind |-> "object", answer |-> Undefined, sources |-> <<"manual p.12">>] }

NetworkErrorMessage == <<"Failed to fetch">>
SyntaxErrorMessage  == <<"Unexpected token < in JSON">>
TypeErrorMessage    == <<"Cannot read properties of null">>
HttpErrorMessage(status) == <<"HTTP error! status: ", ToString(status)>>

----------------------------------------------------------------------------
(* Messages *)

welcomeMessage(vehicle) ==
    [type |-> "bot",
     content |-> <<"Hello! **", vehicle, "** manual QA assistant. Ask anything.">>]

\* Faulty variant of userMessage: the question is stored trimmed.
userMessage_trimmed(q) == [type |-> "user", content |-> trim(q)]

userMessage(q) == [type |-> "user", content |-> q]

\* data.sources || []
sourcesOrEmpty(data) == IF data.sources = Undefined THEN <<>> ELSE data.sources

botMessage(data) ==
    [type |-> "bot", content |-> data.answer, sources |-> sourcesOrEmpty(data)]

ErrorPrefix == <<"Sorry, an error occurred: ">>

errorMessage(message) == [type |-> "bot", content |-> ErrorPrefix \o message]

\* The history variable ev names the handler that ran last when it is
\* changeVehicle, a card's onClick or ask(); any other step leaves Other.
\* For a card's onClick, arg is the card's vehicle and n the length of
\* messages when the card was clicked.
Other == [op |-> "other", arg |-> "", n |-> 0]

----------------------------------------------------------------------------
Init ==
    /\ question = Empty
    /\ selectedVehicle = ""
    /\ availableVehicles = DefaultVehicles
    /\ allVehicles = DefaultVehicles
    /\ vehicleSelectionStep = TRUE
    /\ messages = <<>>
    /\ loading = FALSE
    /\ loadingStep = Empty
    /\ vpc = "fetch"
    /\ asks = <<>>
    /\ origin = <<>>
    /\ ev = [op |-> "mount", arg |-> "", n |-> 0]


----------------------------------------------------------------------------
(* ConversationSession: selectVehicle, changeVehicle *)

\* History: once setMessages replaces the transcript, what a returned ask()
\* asked and how it ended is no longer kept; that it returned, and how many
\* bot messages it appended, is.
forget(list) ==
    [i \in DOMAIN list |->
        IF list[i].pc = "done"
        THEN [list[i] EXCEPT !.q = Empty, !.vehicle = "", !.outcome = "",
                             !.stale = FALSE, !.gen = FALSE]
        ELSE list[i]]

\* Faulty variant of selectVehicle: the welcome message is appended to the
\* messages already held.
selectVehicle_appends(vehicle) ==
    /\ selectedVehicle' = vehicle
    /\ vehicleSelectionStep' = FALSE
    /\ messages' = Append(messages, welcomeMessage(vehicle))
    /\ origin' = Append(origin, 0)
    /\ asks' = forget(asks)

selectVehicle(vehicle) ==
    /\ selectedVehicle' = vehicle
    /\ vehicleSelectionStep' = FALSE
    /\ messages' = <<welcomeMessage(vehicle)>>
    /\ origin' = <<0>>
    /\ asks' = forget(asks)

\* An ask() still awaiting its response when changeVehicle() runs belongs to
\* the session that is being reset.
markStale(list) ==
    [i \in DOMAIN list |->
        IF list[i].pc # "done" THEN [list[i] EXCEPT !.stale = TRUE] ELSE list[i]]

\* Faulty variant of changeVehicle: the draft question is kept.
changeVehicle_keepsDraft ==
    /\ vehicleSelectionStep' = TRUE
    /\ selectedVehicle' = ""
    /\ messages' = <<>>
    /\ origin' = <<>>
    /\ question' = question
    /\ asks' = forget(markStale(asks))

changeVehicle ==
    /\ vehicleSelectionStep' = TRUE
    /\ selectedVehicle' = ""
    /\ messages' = <<>>
    /\ origin' = <<>>
    /\ question' = Empty
    /\ asks' = forget(markStale(asks))

\* Faulty variant of ChangeVehicleClick: the reset also returns the phase to idle.
ChangeVehicleClick_resetsPhase ==
    /\ changeVehicle
    /\ ev' = [op |-> "changeVehicle", arg |-> "", n |-> 0]
    /\ loading' = FALSE
    /\ loadingStep' = Empty
    /\ UNCHANGED <<catalogVars, vpc>>

\* The "HYUNDAI" header button of either screen and the chat screen's
\* "change vehicle" button.
ChangeVehicleClick ==
    /\ changeVehicle
    /\ ev' = [op |-> "changeVehicle", arg |-> "", n |-> 0]
    /\ UNCHANGED <<catalogVars, phaseVars, vpc>>

\* Faulty variant of CardClick: the card calls selectVehicle without the isAvailable guard.
CardClick_unguarded(k) ==
    /\ vehicleSelectionStep
    /\ k \in 1..Len(allVehicles) /\ k <= MaxCards
    /\ selectVehicle(allVehicles[k])
    /\ ev' = [op |-> "cardClick", arg |-> allVehicles[k], n |-> Len(messages)]
    /\ UNCHANGED <<question, catalogVars, phaseVars, vpc>>

\* A vehicle card of the selection screen: one card per element of allVehicles.
CardClick(k) ==
    /\ vehicleSelectionStep
    /\ k \in 1..Len(allVehicles) /\ k <= MaxCards
    /\ LET vehicle == allVehicles[k]
           isAvailable == includes(availableVehicles, vehicle)
       IN  /\ IF isAvailable
              THEN selectVehicle(vehicle)
              ELSE UNCHANGED sessionVars
           /\ ev' = [op |-> "cardClick", arg |-> vehicle, n |-> Len(messages)]
    /\ UNCHANGED <<question, catalogVars, phaseVars, vpc>>

\* The "register manual" button shown on an unavailable card: an alert only.
handleManualUpload(k) ==
    /\ vehicleSelectionStep
    /\ k \in 1..Len(allVehicles) /\ k <= MaxCards
    /\ ~includes(availableVehicles, allVehicles[k])
    /\ ev' = Other
    /\ UNCHANGED <<question, sessionVars, catalogVars, phaseVars, vpc>>

----------------------------------------------------------------------------
(* VehicleCatalog: fetchVehicles, called once by the mount effect *)

VehiclesFetchResolves ==
    /\ vpc = "fetch"
    /\ vpc' = "json"
    /\ ev' = Other
    /\ UNCHANGED <<question, sessionVars, catalogVars, phaseVars>>

\* Faulty variant of fetchVehiclesCatch: the failure path empties the catalog.
fetchVehiclesCatch_clearsCatalog ==
    /\ vpc' = "failed"
    /\ allVehicles' = <<>>
    /\ availableVehicles' = <<>>
    /\ ev' = Other
    /\ UNCHANGED <<question, sessionVars, phaseVars>>

\* catch (error) { console.error(...) }
fetchVehiclesCatch ==
    /\ vpc' = "failed"
    /\ ev' = Other
    /\ UNCHANGED <<question, sessionVars, catalogVars, phaseVars>>

VehiclesFetchRejects ==
    /\ vpc = "fetch"
    /\ fetchVehiclesCatch

\* res.json() settles: it rejects on invalid JSON; data.vehicles throws when
\* data is null; otherwise both lists are replaced.
VehiclesJsonSettles(data) ==
    /\ vpc = "json"
    /\ IF data.kind \in {"invalid", "null"}
       THEN fetchVehiclesCatch
       ELSE /\ allVehicles' = data.vehicles
            /\ availableVehicles' = data.available_vehicles
            /\ vpc' = "done"
            /\ ev' = Other
            /\ UNCHANGED <<question, sessionVars, phaseVars>>

----------------------------------------------------------------------------
(* QueryPipeline: ask *)

newAsk ==
    [q |-> question, vehicle |-> selectedVehicle, pc |-> "fetch",
     outcome |-> "", bots |-> 0, fetches |-> 1, stale |-> FALSE, gen |-> FALSE]

\* ask(), up to its first await: lines 66-91.
ask(entry) ==
    /\ ev' = [op |-> "ask", arg |-> "", n |-> 0]
    /\ IF trim(question) = Empty \/ selectedVehicle = ""
       THEN UNCHANGED <<question, sessionVars, phaseVars>>
       ELSE /\ Len(asks) < MaxAsks
            /\ messages' = Append(messages, userMessage(question))
            /\ origin' = Append(origin, Len(asks) + 1)
            /\ question' = Empty
            /\ loading' = TRUE
            /\ loadingStep' = StepSearching
            /\ asks' = Append(asks, newAsk)
            /\ UNCHANGED <<vehicleSelectionStep, selectedVehicle>>
    /\ UNCHANGED <<catalogVars, vpc>>

\* Faulty variant of askCatch: the failure is logged and no message is appended.
askCatch_dropsMessage(message) ==
    /\ messages' = messages
    /\ loading' = FALSE
    /\ loadingStep' = Empty

\* Faulty variant of askCatch: the message is appended and the loading flag is left set.
askCatch_keepsLoading(message) ==
    /\ messages' = Append(messages, errorMessage(message))
    /\ loading' = loading
    /\ loadingStep' = loadingStep

\* ask(), the catch block: lines 112-122.
askCatch(message) ==
    /\ messages' = Append(messages, errorMessage(message))
    /\ loading' = FALSE
    /\ loadingStep' = Empty

\* Faulty variant of askSuccess: the reply is put in front of the transcript.
askSuccess_prepends(data) ==
    /\ messages' = <<botMessage(data)>> \o messages
    /\ loading' = FALSE
    /\ loadingStep' = Empty

\* ask(), after a parsed body: lines 101-110.
askSuccess(data) ==
    /\ messages' = Append(messages, botMessage(data))
    /\ loading' = FALSE
    /\ loadingStep' = Empty

\* History: invocation i of ask() has returned; what it appended is read off
\* messages.
settledIn(list, i, outcome) ==
    LET appended == Len(messages') - Len(messages)
    IN  /\ asks' = [list EXCEPT ![i].pc = "done", ![i].outcome = outcome,
                                ![i].bots = @ + appended]
        /\ origin' = origin \o [k \in 1..appended |-> i]

settled(i, outcome) == settledIn(asks, i, outcome)

\* History: invocation i of ask() has run line 93, setLoadingStep(generating).
generating(list, i) == [list EXCEPT ![i].gen = TRUE]

\* Faulty variant of AskFetchResolves: line 93 is missing, the step stays
\* at searching while the body is parsed.
AskFetchResolves_noStep(i, status) ==
    /\ i \in DOMAIN asks
    /\ asks[i].pc = "fetch"
    /\ IF ~ok(status)
       THEN /\ askCatch(HttpErrorMessage(status))
            /\ settledIn(asks, i, "http")
       ELSE /\ loadingStep' = loadingStep
            /\ asks' = [asks EXCEPT ![i].pc = "json"]
            /\ UNCHANGED <<messages, origin, loading>>
    /\ ev' = Other
    /\ UNCHANGED <<question, vehicleSelectionStep, selectedVehicle, catalogVars, vpc>>

\* fetch() rejects: no response.
AskFetchRejects(i) ==
    /\ i \in DOMAIN asks
    /\ asks[i].pc = "fetch"
    /\ askCatch(NetworkErrorMessage)
    /\ settled(i, "network")
    /\ ev' = Other
    /\ UNCHANGED <<question, vehicleSelectionStep, selectedVehicle, catalogVars, vpc>>

\* fetch() resolves with a response: lines 93-97.
AskFetchResolves(i, status) ==
    /\ i \in DOMAIN asks
    /\ asks[i].pc = "fetch"
    /\ IF ~ok(status)
       THEN /\ askCatch(HttpErrorMessage(status))
            /\ settledIn(generating(asks, i), i, "http")
       ELSE /\ loadingStep' = StepGenerating
            /\ asks' = [generating(asks, i) EXCEPT ![i].pc = "json"]
            /\ UNCHANGED <<messages, origin, loading>>
    /\ ev' = Other
    /\ UNCHANGED <<question, vehicleSelectionStep, selectedVehicle, catalogVars, vpc>>

\* res.json() settles: lines 99-110, or the catch block.
AskJsonSettles(i, data) ==
    /\ i \in DOMAIN asks
    /\ asks[i].pc = "json"
    /\ CASE data.kind = "invalid" ->
                askCatch(SyntaxErrorMessage) /\ settled(i, "invalid")
         [] data.kind = "null" ->
                askCatch(TypeErrorMessage) /\ settled(i, "null")
         [] OTHER ->
                /\ askSuccess(data)
                /\ settled(i, IF data.answer = Undefined THEN "noAnswer" ELSE "ok")
    /\ ev' = Other
    /\ UNCHANGED <<question, vehicleSelectionStep, selectedVehicle, catalogVars, vpc>>

\* The network layer settles a pending await of invocation i.
AskNetwork(i) ==
    \/ AskFetchRejects(i)
    \/ \E status \in Statuses : AskFetchResolves(i, status)
    \/ \E data \in AskBodies : AskJsonSettles(i, data)

----------------
(* The chat screen's input area *)

\* Faulty variant of textareaDisabled: the textarea lacks the disabled attribute.
textareaDisabled_never == FALSE

\* <textarea disabled={loading}>
textareaDisabled == loading

\* <button disabled={loading || !question.trim()}>
sendDisabled == loading \/ trim(question) = Empty

\* onChange={(e) => setQuestion(e.target.value)}
OnChange(text) ==
    /\ ~vehicleSelectionStep
    /\ ~textareaDisabled
    /\ question' = text
    /\ ev' = Other
    /\ UNCHANGED <<sessionVars, catalogVars, phaseVars, vpc>>

\* The quick-action buttons: onClick={() => setQuestion("...")}
QuickAction(n) ==
    /\ ~vehicleSelectionStep
    /\ n <= MaxQuick
    /\ question' = QuickQuestions[n]
    /\ ev' = Other
    /\ UNCHANGED <<sessionVars, catalogVars, phaseVars, vpc>>

Keys == {"Enter", "a"}

handleKeyPress(key, shiftKey) ==
    IF key = "Enter" /\ ~shiftKey
    THEN ask("enter")
    ELSE /\ ev' = Other
         /\ UNCHANGED <<question, sessionVars, catalogVars, phaseVars, vpc>>

\* A key pressed in the textarea.
KeyPress(key, shiftKey) ==
    /\ ~vehicleSelectionStep
    /\ ~textareaDisabled
    /\ handleKeyPress(key, shiftKey)

\* The send button.
SendClick ==
    /\ ~vehicleSelectionStep
    /\ ~sendDisabled
    /\ ask("send")

\* ask() invoked by a caller that the disabled attributes do not stop.
AskCall ==
    ask("call")

----------------------------------------------------------------------------
Network ==
    \/ VehiclesFetchResolves
    \/ VehiclesFetchRejects
    \/ \E data \in CatalogBodies : VehiclesJsonSettles(data)
    \/ \E i \in 1..MaxAsks : AskNetwork(i)

\* The user acting on what the screens offer.
NextUI ==
    \/ ChangeVehicleClick
    \/ \E k \in 1..Len(allVehicles) : CardClick(k)
    \/ \E k \in 1..Len(allVehicles) : handleManualUpload(k)
    \/ \E text \in TypedTexts : OnChange(text)
    \/ \E n \in 1..Len(QuickQuestions) : QuickAction(n)
    \/ \E key \in Keys, shiftKey \in BOOLEAN : KeyPress(key, shiftKey)
    \/ SendClick
    \/ Network

Next ==
    \/ NextUI
    \/ AskCall

\* Every handler, ask() callable directly.
Spec == Init /\ [][Next]_vars

\* Submissions only through the send button and the Enter key.
SpecUI == Init /\ [][NextUI]_vars

\* SpecUI with a network layer that eventually settles every request.
FairSpecUI == SpecUI /\ \A i \in 1..MaxAsks : WF_vars(AskNetwork(i))

----------------------------------------------------------------------------
(* Properties *)

Outstanding == {i \in DOMAIN asks : asks[i].pc # "done"}

FailureOutcomes == {"network", "http", "invalid", "null", "noAnswer"}

\* The replies of the transcript: the bot messages appended by an ask().
Replies == {k \in 1..Len(messages) : origin[k] # 0 /\ messages[k].type = "bot"}

IsPrefix(a, b) == Len(a) <= Len(b) /\ \A k \in 1..Len(a) : b[k] = a[k]

\* The content of the message the catch block builds for a failure.
IsErrorMessage(m) ==
    /\ DOMAIN m = {"type", "content"}
    /\ m.type = "bot"
    /\ IsPrefix(ErrorPrefix, m.content)
    /\ Len(m.content) > Len(ErrorPrefix)

\* C1 (P4, stale-result drop): when changeVehicle() ran while an ask() was
\* awaiting its response, the bot message built from that response is never
\* in messages, neither in selecting mode nor in a later session.
C1_StaleResultDropped ==
    \A k \in Replies : ~asks[origin[k]].stale

\* C2 (P3, single in-flight): a call of ask() made while loading is true
\* changes neither messages, the draft nor the phase, and issues no request.
C2_AskWhileLoadingIsNoOp ==
    [][(ev'.op = "ask" /\ loading)
          => UNCHANGED <<messages, question, loading, loadingStep, asks>>]_vars

\* C3: with submissions made only through the send button and the Enter key,
\* at most one /ask request is outstanding in every reachable state.
C3_AtMostOneOutstanding ==
    Cardinality(Outstanding) <= 1

\* A request of a reset session is still outstanding in a new session whose
\* draft is not blank.
C3_Witness ==
    /\ ~vehicleSelectionStep
    /\ trim(question) # Empty
    /\ \E i \in Outstanding : asks[i].stale

\* C4 (session invariant): chatting implies a selected vehicle, and
\* selecting implies an empty transcript.
C4_SessionInvariant ==
    /\ ~vehicleSelectionStep => selectedVehicle # ""
    /\ vehicleSelectionStep => messages = <<>>

\* C5 (P1, transcript append-only): an accepted submission appends one user
\* message, its completion appends one bot message, and no step other than
\* changeVehicle() shortens messages or removes or replaces a message.
C5_TranscriptAppendOnly ==
    [][/\ ev'.op # "changeVehicle" => IsPrefix(messages, messages')
       /\ Len(asks') > Len(asks) =>
            /\ Len(messages') = Len(messages) + 1
            /\ messages'[Len(messages')].type = "user"
       /\ \A i \in DOMAIN asks :
            asks[i].pc # "done" /\ asks'[i].pc = "done" =>
                /\ Len(messages') = Len(messages) + 1
                /\ messages'[Len(messages')].type = "bot"]_vars

\* C6 (P6, no loss on failure): every accepted submission issues one /ask
\* request and, once that request has settled in any way, has appended
\* exactly one bot message; before that it has appended none.
C6_ExactlyOneBotMessage ==
    \A i \in DOMAIN asks :
        /\ asks[i].fetches = 1
        /\ asks[i].bots = IF asks[i].pc = "done" THEN 1 ELSE 0

\* Two submissions have completed, one by a failure and one by an answer.
C6_Witness ==
    \E i, j \in DOMAIN asks :
        /\ asks[i].pc = "done" /\ asks[i].outcome \in {"network", "http", "invalid", "null"}
        /\ asks[j].pc = "done" /\ asks[j].outcome = "ok"

\* C7: the reply to a request that failed (no response, non-2xx status,
\* unparseable body, or a 2xx body without the answer field) is the error
\* message, never an answer message.
C7_EveryFailureIsAnErrorMessage ==
    \A k \in Replies :
        asks[origin[k]].outcome \in FailureOutcomes => IsErrorMessage(messages[k])

\* C8 (P5, selection gate): selecting a vehicle that is not in the available
\* list changes nothing: the mode stays selecting, selectedVehicle stays
\* none and messages is left as it was.
C8_UnavailableSelectionIsNoOp ==
    [][(ev'.op = "cardClick" /\ ~includes(availableVehicles, ev'.arg))
          => /\ vehicleSelectionStep' /\ selectedVehicle' = ""
             /\ UNCHANGED <<sessionVars, question, phaseVars>>]_vars

\* The card of an unavailable vehicle has just been clicked.
C8_Witness ==
    /\ ev.op = "cardClick"
    /\ includes(allVehicles, ev.arg)
    /\ ~includes(availableVehicles, ev.arg)
    /\ vehicleSelectionStep

\* C9: once a submission has set loading, the phase eventually returns to
\* idle (loading false, loadingStep empty), given that the network layer
\* settles every request.
C9_PhaseReturnsToIdle ==
    loading ~> (~loading /\ loadingStep = Empty)

\* A failed submission has completed and the phase is idle again.
C9_Witness ==
    /\ ~loading /\ loadingStep = Empty
    /\ \E i \in DOMAIN asks :
        asks[i].pc = "done" /\ asks[i].outcome \in {"network", "http", "invalid", "null"}

\* C10: a failed /vehicles load (fetch rejected, body unparseable) leaves
\* both catalog lists, the session, the draft and the phase as they were.
C10_CatalogFailureContained ==
    [][(vpc # "failed" /\ vpc' = "failed")
          => UNCHANGED <<allVehicles, availableVehicles, vehicleSelectionStep,
                         selectedVehicle, messages, question, loading,
                         loadingStep>>]_vars

\* The load has failed during a conversation; the default catalog is kept.
C10_Witness ==
    /\ vpc = "failed"
    /\ allVehicles = DefaultVehicles /\ availableVehicles = DefaultVehicles
    /\ Len(messages) > 1

\* C11 (catalog invariant): every vehicle of the available list is in the
\* all list, also after a load has replaced both lists.
C11_AvailableSubsetOfAll ==
    \A k \in 1..Len(availableVehicles) : includes(allVehicles, availableVehicles[k])

\* C12 (P2, order preservation): in a session the transcript after the
\* welcome message is user question, its bot reply, user question, its bot
\* reply, ..., in submission order.
C12_TranscriptAlternates ==
    ~vehicleSelectionStep =>
        \A k \in 2..Len(messages) :
            /\ origin[k] # 0
            /\ k % 2 = 0 => /\ messages[k].type = "user"
                            /\ k > 2 => origin[k] > origin[k - 1]
            /\ k % 2 = 1 => /\ messages[k].type = "bot"
                            /\ origin[k] = origin[k - 1]

\* The content of the last user message of a transcript; Undefined if none.
LastUserContent(list) ==
    LET users == SelectSeq(list, LAMBDA m : m.type = "user")
    IN  IF users = <<>> THEN Undefined ELSE users[Len(users)].content

\* C13 (accepted submit): the step that issues an /ask request appends the
\* user message whose content is the submitted question, clears the draft and
\* sets the phase to searching; and while a request is outstanding and no
\* changeVehicle has happened since, its question is the last user message.
C13_AcceptedSubmit ==
    [][/\ Len(asks') > Len(asks) =>
            /\ messages' = Append(messages, [type |-> "user", content |-> question])
            /\ question' = Empty
            /\ loading' /\ loadingStep' = StepSearching
            /\ asks'[Len(asks')].q = question
            /\ asks'[Len(asks')].fetches = 1
       /\ \A i \in DOMAIN asks' :
            (asks'[i].pc # "done" /\ ~asks'[i].stale) =>
                LastUserContent(messages') = asks'[i].q]_vars

C13_Witness ==
    /\ ev.op = "ask"
    /\ question = Empty
    /\ loadingStep = StepSearching
    /\ \E i \in Outstanding :
        /\ ~asks[i].stale
        /\ asks[i].q = <<" ", "a", " ">>
        /\ messages[Len(messages)] = [type |-> "user", content |-> asks[i].q]

\* The asks that take a step from pc value a to pc value b.
Moved(a, b) == {i \in DOMAIN asks : asks[i].pc = a /\ asks'[i].pc = b}

\* C14 (phase ordering): the phase is idle, searching or generating and
\* moves only idle -> searching at a submit, searching -> generating when a
\* response is received, generating -> idle when the body has been handled,
\* and searching -> idle when the fetch fails (with no response: without
\* passing through generating; with a response: after line 93, which sets
\* generating before the status check); it is generating only while a
\* received response is being handled, and never moves generating -> searching.
C14_PhaseOrdering ==
    [][/\ loadingStep' \in {Empty, StepSearching, StepGenerating}
       /\ loading' <=> loadingStep' # Empty
       /\ loadingStep' = StepGenerating =>
            \E i \in DOMAIN asks' : asks'[i].pc = "json" /\ asks'[i].gen
       /\ \A i \in DOMAIN asks' :
            /\ asks'[i].pc = "fetch" => ~asks'[i].gen
            /\ asks'[i].outcome = "network" => ~asks'[i].gen
            /\ asks'[i].outcome \in {"http", "invalid", "null", "noAnswer", "ok"}
                   => asks'[i].gen
       /\ loadingStep' # loadingStep =>
            \/ /\ loadingStep = Empty /\ loadingStep' = StepSearching
               /\ Len(asks') = Len(asks) + 1
            \/ /\ loadingStep = StepSearching /\ loadingStep' = StepGenerating
               /\ Moved("fetch", "json") # {}
            \/ /\ loadingStep = StepGenerating /\ loadingStep' = Empty
               /\ Moved("json", "done") # {}
            \/ /\ loadingStep = StepSearching /\ loadingStep' = Empty
               /\ \E i \in Moved("fetch", "done") :
                    asks'[i].outcome \in {"network", "http"}]_vars

C14_Witness ==
    /\ ~loading /\ loadingStep = Empty
    /\ \E i, j \in DOMAIN asks :
        /\ asks[i].pc = "done" /\ asks[i].outcome = "ok" /\ asks[i].gen
        /\ asks[j].pc = "done" /\ asks[j].outcome = "network" /\ ~asks[j].gen

\* A string of white space only (the empty string included).
IsBlank(s) == \A k \in 1..Len(s) : s[k] = " "

\* C15 (submit preconditions): a submit whose question is blank after
\* trimming, or made while no vehicle is selected (selecting mode), appends
\* no message, leaves the draft and the phase unchanged and issues no request.
C15_RejectedSubmitIsNoOp ==
    [][(ev'.op = "ask" /\ (IsBlank(question) \/ vehicleSelectionStep))
          => UNCHANGED <<messages, question, loading, loadingStep, asks>>]_vars

C15_Witness ==
    /\ ev.op = "ask"
    /\ ~vehicleSelectionStep
    /\ question = <<" ", " ">>
    /\ asks = <<>>
    /\ Len(messages) = 1

\* C16 (selectVehicle): selecting an available vehicle in selecting mode
\* yields chatting mode with that vehicle selected and messages equal to
\* exactly one bot welcome message that names the vehicle, whatever messages
\* held before.
C16_SelectSeedsWelcome ==
    [][(/\ ev'.op = "cardClick"
        /\ vehicleSelectionStep
        /\ includes(availableVehicles, ev'.arg))
          => /\ ~vehicleSelectionStep'
             /\ selectedVehicle' = ev'.arg
             /\ messages' = <<welcomeMessage(ev'.arg)>>
             /\ messages'[1].type = "bot"
             /\ includes(messages'[1].content, ev'.arg)]_vars

C16_Witness ==
    /\ ev.op = "cardClick"
    /\ ev.n >= 1
    /\ ~vehicleSelectionStep
    /\ selectedVehicle = ev.arg
    /\ messages = <<welcomeMessage(ev.arg)>>

\* The program's own state, without the history variables.
appState ==
    <<question, selectedVehicle, availableVehicles, allVehicles,
      vehicleSelectionStep, messages, loading, loadingStep>>

\* C17 (changeVehicle): changeVehicle can be run in selecting and in chatting
\* mode; it always yields selecting mode, no selected vehicle, no messages
\* and an empty draft, and leaves the catalog unchanged; run a second time it
\* changes nothing.
C17_ChangeVehicleResets ==
    [][/\ ENABLED ChangeVehicleClick
       /\ ev'.op = "changeVehicle" =>
            /\ vehicleSelectionStep'
            /\ selectedVehicle' = ""
            /\ messages' = <<>>
            /\ question' = Empty
            /\ UNCHANGED catalogVars
       /\ ev.op = "changeVehicle" =>
            ~ENABLED (ChangeVehicleClick /\ appState' # appState)]_vars

C17_Witness ==
    /\ ev.op = "changeVehicle"
    /\ vehicleSelectionStep /\ selectedVehicle = ""
    /\ messages = <<>> /\ question = Empty
    /\ loading
    /\ \E i \in Outstanding : asks[i].stale /\ asks[i].q = <<" ", "a", " ">>

\* C18 (reply provenance): each reply in messages was produced by an /ask
\* request whose vehicle is the currently selected vehicle.
C18_ReplyMatchesSelectedVehicle ==
    ~vehicleSelectionStep =>
        \A k \in Replies : asks[origin[k]].vehicle = selectedVehicle

\* C19 (reset keeps the phase): changeVehicle and selectVehicle leave loading
\* and loadingStep unchanged, so the phase stays non-idle through a reset and
\* the following selectVehicle; while it is non-idle no submission is made
\* through the UI, and it becomes idle only when an outstanding request
\* resolves.
C19_ResetKeepsPhase ==
    [][/\ ev'.op \in {"changeVehicle", "cardClick"} => UNCHANGED phaseVars
       /\ (\E i \in DOMAIN asks' : asks'[i].pc # "done") => loading'
       /\ loading => Len(asks') = Len(asks)
       /\ (loading /\ ~loading') =>
            \E i \in DOMAIN asks : asks[i].pc # "done" /\ asks'[i].pc = "done"]_vars

C19_Witness ==
    /\ ev.op = "cardClick"
    /\ ~vehicleSelectionStep
    /\ loading /\ loadingStep # Empty
    /\ messages = <<welcomeMessage(selectedVehicle)>>
    /\ \E i \in Outstanding : asks[i].stale

\* C20 (welcome first): in chatting mode messages is non-empty and its first
\* element is the welcome message of the selected vehicle, also when replies
\* of an earlier session have been appended.
C20_WelcomeFirst ==
    ~vehicleSelectionStep =>
        /\ Len(messages) >= 1
        /\ messages[1] = welcomeMessage(selectedVehicle)
        /\ origin[1] = 0

C20_Witness ==
    /\ ~vehicleSelectionStep
    /\ Len(messages) >= 2
    /\ \E k \in Replies : asks[origin[k]].stale

====
